---- MODULE Spec2Model ----
(***************************************************************************)
(* Ordinary-kriging predictor (src/kriging/kriging_ordinary.py) and the    *)
(* variogram model family (src/model/distribution.py).                     *)
(*                                                                         *)
(* The predictor is modelled with its default backend (algorithm='kdtree', *)
(* distance_type='euclidean').  Locations are points with integer          *)
(* coordinates whose pairwise distances are integers, the variogram        *)
(* binding is the linear model with integer parameters, and the kriging    *)
(* system is solved exactly over the rationals (Cramer's rule), so that    *)
(* "singular" means det(a) = 0 and weights are fractions num/det.          *)
(***************************************************************************)
EXTENDS Integers, Sequences, FiniteSets, TLC

VARIABLES
    X,               \* self.X : [set, cols, data]  (set = attribute exists)
    y,               \* self.y : [set, array, data]  (array = an ndarray, else a list)
    n_features,      \* self.n_features
    variogram,       \* self._variogram : [set, nugget, glf]
    good_lowbin_fit, \* self.good_lowbin_fit
    useNugget,       \* self._useNugget
    fitted,          \* history: a fit()/update_fit() call has completed
    op,              \* last operation called
    outcome,         \* how the last operation ended
    refit,           \* last operation ran the variogram-fitting collaborator
    q,               \* predict: query argument
    k,               \* predict: n_neighbor argument
    radius,          \* predict: radius argument
    searched,        \* predict: the neighbor search was started
    trace,           \* predict: per processed point, its neighborhood and system
    results,         \* predict: returned prediction array
    errors,          \* predict: returned error array
    vm               \* variogram model family: last evaluation [name, m, d, out]

vars == <<X, y, n_features, variogram, good_lowbin_fit, useNugget, fitted, op,
          outcome, refit, q, k, radius, searched, trace, results, errors, vm>>

krigingVars == <<X, y, n_features, variogram, good_lowbin_fit, useNugget, fitted,
                 op, outcome, refit, q, k, radius, searched, trace, results, errors>>

(***************************************************************************)
(* Bounds of the model.                                                    *)
(***************************************************************************)
MaxN == 2       \* observations per fit
MaxM == 2       \* query points per batch

\* NP.inf, the default radius and the kd-tree's distance for a missing neighbor
Inf == 1000

\* stored locations with one and with two features, and query points
Points1 == {<<0>>, <<2>>}
Points2 == {<<3, 4>>}
Scalars == {<<0>>}
QueryPoints1 == {<<0>>, <<1>>}
QueryPoints2 == {<<0, 0>>}
Values  == {1, 2}
ListValues == {1}
Nuggets == {0, 1}
Radii   == {0, 2, Inf}
Ks      == {0, 1, 2, 3}

(***************************************************************************)
(* Arithmetic helpers.                                                     *)
(***************************************************************************)
Abs(a) == IF a < 0 THEN -a ELSE a

RECURSIVE GCD(_, _)
GCD(a, b) == IF b = 0 THEN Abs(a) ELSE GCD(b, a % Abs(b))

\* the fraction num/den in lowest terms with a positive denominator
Rat(num, den) ==
    LET g == GCD(num, den)
        s == IF den < 0 THEN -1 ELSE 1
    IN  [num |-> s * (num \div g), den |-> s * (den \div g)]

Zero == [num |-> 0, den |-> 1]

RECURSIVE SumSeq(_)
SumSeq(s) == IF Len(s) = 0 THEN 0 ELSE s[1] + SumSeq(Tail(s))

\* largest r with r*r <= v
ISqrt(v) == CHOOSE r \in 0 .. v : r * r <= v /\ (r + 1) * (r + 1) > v

SeqsUpTo(S, n) == UNION {[1 .. i -> S] : i \in 0 .. n}

RECURSIVE SeqProduct(_)
\* all sequences drawing element i from sets[i]
SeqProduct(sets) ==
    IF Len(sets) = 0 THEN {<<>>}
    ELSE {<<h>> \o t : h \in sets[1], t \in SeqProduct(Tail(sets))}

Perms(n) == {p \in [1 .. n -> 1 .. n] : \A i, j \in 1 .. n : i # j => p[i] # p[j]}

(***************************************************************************)
(* Variogram model family (src/model/distribution.py).  Floats are fixed-   *)
(* point numbers: the integer v stands for v / Scale.                       *)
(***************************************************************************)
Scale == 10000
SeriesTerms == 8

Fixed(n) == n * Scale
FMul(a, b) == (a * b) \div Scale
FDiv(a, b) == (a * Scale) \div b

\* b ** n for a natural number n
RECURSIVE FPow(_, _)
FPow(b, n) == IF n = 0 THEN Scale ELSE FMul(b, FPow(b, n - 1))

\* sum of the Taylor terms i .. SeriesTerms of exp(x), term being term i - 1
RECURSIVE ExpSeries(_, _, _)
ExpSeries(x, i, term) ==
    IF i > SeriesTerms THEN term
    ELSE term + ExpSeries(x, i + 1, (term * x) \div (Scale * i))

\* NP.exp(-x) for x >= 0: (1 / e) ** floor(x) / exp(x - floor(x))
ExpNeg(x) ==
    FMul(FPow(FDiv(Scale, ExpSeries(Scale, 1, Scale)), x \div Scale),
         FDiv(Scale, ExpSeries(x % Scale, 1, Scale)))

\* sum of the Taylor terms of cos(x) from term i (of x ** 2i) on
RECURSIVE CosSeries(_, _, _)
CosSeries(x, i, term) ==
    IF 2 * i > SeriesTerms THEN term
    ELSE term + CosSeries(x, i + 1,
                          -(FMul(FMul(term, x), x) \div ((2 * i - 1) * (2 * i))))

\* NP.cos(x) for 0 <= x <= 1
Cos(x) == CosSeries(x, 1, Scale)

RECURSIVE SqrtSearch(_, _, _)
SqrtSearch(v, lo, hi) ==
    IF lo >= hi THEN lo
    ELSE LET mid == (lo + hi + 1) \div 2
         IN  IF mid * mid <= v THEN SqrtSearch(v, mid, hi)
             ELSE SqrtSearch(v, lo, mid - 1)

\* NP.sqrt(v) for v >= 0
Sqrt(v) == SqrtSearch(v * Scale, 0, IF v * Scale < 46340 THEN v * Scale ELSE 46340)

\* NP.pi
Pi == (355 * Scale) \div 113

\* linear(m, d): m is [slope, nugget]
linear(m, d) == FMul(m[1], d) + m[2]

\* power(m, d): m is [scale, exponent, nugget], the exponent a whole number
power(m, d) == FMul(m[1], FPow(d, m[2] \div Scale)) + m[3]

\* gaussian(m, d): m is [psill, range, nugget]
gaussian(m, d) ==
    LET r47 == FDiv(FMul(m[2], Fixed(4)), Fixed(7))
    IN  FMul(m[1], Scale - ExpNeg(FDiv(FMul(d, d), FMul(r47, r47)))) + m[3]

\* exponential(m, d): m is [psill, range, nugget]
exponential(m, d) == FMul(m[1], Scale - ExpNeg(FDiv(d, m[2]))) + m[3]

\* spherical(m, d): m is [psill, range, nugget]; NP.piecewise on d <= range
spherical(m, d) ==
    IF d <= m[2]
    THEN FMul(m[1], FDiv(3 * d, 2 * m[2])
                    - FDiv(FPow(d, 3), 2 * FPow(m[2], 3))) + m[3]
    ELSE m[1] + m[3]

\* hole_effect(m, d): m is [psill, range, nugget]
hole_effect(m, d) ==
    LET t == FDiv(d, FDiv(m[2], Fixed(3)))
    IN  FMul(m[1], Scale - FMul(Scale - t, ExpNeg(t))) + m[3]

\* circular(m, d): m is [psill, range, nugget]; NP.piecewise on d <= range
circular(m, d) ==
    IF d <= m[2]
    THEN LET x == FDiv(d, m[2])
         IN  FMul(m[1], Scale - FDiv(FDiv(Fixed(2), Pi), Cos(x))
                        + Sqrt(Scale - FMul(x, x))) + m[3]
    ELSE m[1] + m[3]

\* the table distributions: model name -> function
distributions(name, m, d) ==
    CASE name = "linear"      -> linear(m, d)
      [] name = "power"       -> power(m, d)
      [] name = "gaussian"    -> gaussian(m, d)
      [] name = "exponential" -> exponential(m, d)
      [] name = "spherical"   -> spherical(m, d)
      [] name = "hole_effect" -> hole_effect(m, d)
      [] name = "circular"    -> circular(m, d)

ModelNames ==
    {"linear", "power", "gaussian", "exponential", "spherical", "hole_effect", "circular"}

\* the position of the nugget in a model's parameter vector
NuggetOf(name, m) == IF name = "linear" THEN m[2] ELSE m[3]

(***************************************************************************)
(* Collaborators of the predictor.                                         *)
(***************************************************************************)
\* slope of the fitted linear variogram binding
Slope == 1

NoVariogram == [set |-> FALSE, nugget |-> 0, glf |-> FALSE]

\* VariogramBinding.predict(distance): the bound model at the bound parameters
VarPredict(vg, d) == linear(<<Fixed(Slope), Fixed(vg.nugget)>>, Fixed(d)) \div Scale

\* scipy cdist / kd-tree p-norm between two points of equal dimension
Dist(p1, p2, metric) ==
    IF metric = "cityblock"
    THEN SumSeq([i \in 1 .. Len(p1) |-> Abs(p1[i] - p2[i])])
    ELSE ISqrt(SumSeq([i \in 1 .. Len(p1) |-> (p1[i] - p2[i]) * (p1[i] - p2[i])]))

\* constructor default distance_type
distance_type == "euclidean"

\* the orders in which the kd-tree may report the stored points for a query
\* of kk neighbors at pt: nearest first; which of several equidistant points fall
\* among the first kk is the tree's choice (any), and equidistant points on the
\* same side of that cut are listed by index (their order does not change the
\* solution of the system)
SortedOrders(data, pt, kk) ==
    {p \in Perms(Len(data)) :
        \A i \in 1 .. (Len(data) - 1) :
            LET d1 == Dist(data[p[i]], pt, distance_type)
                d2 == Dist(data[p[i + 1]], pt, distance_type)
            IN  \/ d1 < d2
                \/ d1 = d2 /\ (i = kk \/ p[i] < p[i + 1])}

\* cKDTree.query(pt, k=kk): kk slots, nearest first; a slot with no point left
\* holds distance inf and index N (0-based), here N + 1
KdQuery(data, pt, kk, ord) ==
    [nd |-> [j \in 1 .. kk |-> IF j <= Len(data)
                               THEN Dist(data[ord[j]], pt, distance_type) ELSE Inf],
     ni |-> [j \in 1 .. kk |-> IF j <= Len(data) THEN ord[j] ELSE Len(data) + 1]]

RECURSIVE Det(_)
DropAt(s, i) == [j \in 1 .. (Len(s) - 1) |-> IF j < i THEN s[j] ELSE s[j + 1]]

Minor(m, c) == [r \in 1 .. (Len(m) - 1) |-> DropAt(m[r + 1], c)]

\* determinant by expansion along the first row
Det(m) ==
    IF Len(m) = 0 THEN 1
    ELSE IF Len(m) = 1 THEN m[1][1]
    ELSE SumSeq([c \in 1 .. Len(m) |->
                    IF m[1][c] = 0 THEN 0
                    ELSE (IF c % 2 = 1 THEN 1 ELSE -1) * m[1][c] * Det(Minor(m, c))])

ReplaceCol(m, c, b) ==
    [r \in 1 .. Len(m) |-> [j \in 1 .. Len(m) |-> IF j = c THEN b[r] ELSE m[r][j]]]

\* a solver that answers a singular system with zero weights instead of raising
Solve_Default(a, b) ==
    LET d == Det(a)
    IN  [singular |-> FALSE,
         det      |-> IF d = 0 THEN 1 ELSE d,
         wnum     |-> IF d = 0 THEN [i \in 1 .. Len(a) |-> 0]
                      ELSE [i \in 1 .. Len(a) |-> Det(ReplaceCol(a, i, b))]]

\* scipy.linalg.solve(a, b): LinAlgError when a is singular, else the unique
\* solution, here as numerators over the common denominator det
Solve(a, b) ==
    LET d == Det(a)
    IN  [singular |-> d = 0,
         det      |-> d,
         wnum     |-> IF d = 0 THEN <<>>
                      ELSE [i \in 1 .. Len(a) |-> Det(ReplaceCol(a, i, b))]]

(***************************************************************************)
(* predict(): validation (lines 223-240).                                  *)
(***************************************************************************)
\* a query argument after NP.atleast_1d: a 1-D vector of scalars
\* [ndim |-> 1, cols |-> 0, data |-> << <<c>>, ... >>] (each scalar held as <<c>>)
\* or a 2-D batch of points [ndim |-> 2, cols |-> F, data |-> <<point, ...>>]
DimCheck(nf, x) ==
    IF x.ndim = 1
    THEN IF nf = Len(x.data) THEN "ok"
         ELSE IF nf # 1 THEN "DimensionMismatch"
         ELSE "ok"
    ELSE IF x.cols # nf THEN "DimensionMismatch" ELSE "ok"

\* line 226: a 1-D vector with as many entries as features becomes one point
Promote(nf, x) ==
    IF x.ndim = 1 /\ nf = Len(x.data)
    THEN [ndim |-> 2, cols |-> Len(x.data),
          data |-> << [i \in 1 .. Len(x.data) |-> x.data[i][1]] >>]
    ELSE x

\* a validation that lets a radius <= 0 through to the neighbor search
Validate_NoRadiusCheck(nf, x, kk, r) ==
    IF DimCheck(nf, x) # "ok" THEN "DimensionMismatch"
    ELSE IF kk <= 0 THEN "InvalidNeighborCount"
    ELSE "ok"

\* the checks in the order of the code; each prints an error and returns None
Validate(nf, x, kk, r) ==
    IF DimCheck(nf, x) # "ok" THEN "DimensionMismatch"
    ELSE IF kk <= 0 THEN "InvalidNeighborCount"
    ELSE IF r <= 0 THEN "InvalidRadius"
    ELSE "ok"

(***************************************************************************)
(* predict(): one iteration of the loop over query points (lines 265-308). *)
(***************************************************************************)
\* a mask that keeps distances equal to the radius, the sentinel's included
InRadius_Inclusive(d, r) == d <= r

\* lines 269-270: the mask nd < radius
InRadius(d, r) == d < r

KeptSlots(nd, r) ==
    SelectSeq([j \in 1 .. Len(nd) |-> j], LAMBDA j : InRadius(nd[j], r))

\* a matrix whose corner is left at 1
BuildA_CornerOne(data, ni, vg) ==
    LET n == Len(ni)
    IN  [i \in 1 .. (n + 1) |-> [j \in 1 .. (n + 1) |->
            IF i <= n /\ j <= n
            THEN VarPredict(vg, Dist(data[ni[i]], data[ni[j]], distance_type))
            ELSE 1]]

\* lines 278-289: variogram of the pairwise distances, bordered by ones, corner 0
BuildA(data, ni, vg) ==
    LET n == Len(ni)
    IN  [i \in 1 .. (n + 1) |-> [j \in 1 .. (n + 1) |->
            IF i <= n /\ j <= n
            THEN VarPredict(vg, Dist(data[ni[i]], data[ni[j]], distance_type))
            ELSE IF i = n + 1 /\ j = n + 1 THEN 0 ELSE 1]]

\* lines 279, 292: variogram of the query distances, last entry 1
BuildB(nd, vg) ==
    [i \in 1 .. (Len(nd) + 1) |-> IF i <= Len(nd) THEN VarPredict(vg, nd[i]) ELSE 1]

\* line 297: NP.fill_diagonal(a, 0.)
ZeroDiagonal(a) ==
    [i \in 1 .. Len(a) |-> [j \in 1 .. Len(a) |-> IF i = j THEN 0 ELSE a[i][j]]]

\* lines 299-301: b is zeroed where the query distance is exactly 0
ZeroCoincident(b, nd) ==
    [i \in 1 .. Len(b) |-> IF i <= Len(nd) /\ Abs(nd[i]) = 0 THEN 0 ELSE b[i]]

\* lines 294-301: the nugget policy
NuggetA(a, useN) == IF useN THEN a ELSE ZeroDiagonal(a)

NuggetB(b, nd, useN) == IF useN THEN b ELSE ZeroCoincident(b, nd)

EmptyPoint ==
    [status |-> "empty", nd |-> <<>>, ni |-> <<>>, a |-> <<>>, b |-> <<>>,
     det |-> 0, wnum |-> <<>>, pred |-> Zero, err |-> Zero]

\* what one iteration does with the kd-tree's answer (nd0, ni0) for its point
KrigePoint(data, yv, vg, useN, nd0, ni0, r) ==
    LET keep == KeptSlots(nd0, r)
        ni   == [j \in 1 .. Len(keep) |-> ni0[keep[j]]]
        nd   == [j \in 1 .. Len(keep) |-> nd0[keep[j]]]
        n    == Len(ni)
        base == [EmptyPoint EXCEPT !.nd = nd, !.ni = ni]
    IN  IF n = 0 THEN base
        ELSE IF \E j \in 1 .. n : ni[j] > Len(data)
        THEN [base EXCEPT !.status = "IndexError"]
        ELSE IF ~vg.set
        THEN [base EXCEPT !.status = "AttributeError"]
        ELSE LET a   == NuggetA(BuildA(data, ni, vg), useN)
                 b   == NuggetB(BuildB(nd, vg), nd, useN)
                 sol == Solve(a, b)
                 sys == [base EXCEPT !.a = a, !.b = b, !.det = sol.det,
                                     !.wnum = sol.wnum]
             IN  IF sol.singular
                 THEN [sys EXCEPT !.status = "SingularSystem"]
                 ELSE IF ~yv.set
                 THEN \* line 307: self.y does not exist
                      [sys EXCEPT !.status = "AttributeError"]
                 ELSE IF ~yv.array
                 THEN \* line 307: a list indexed by the index array ni
                      [sys EXCEPT !.status = "TypeError"]
                 ELSE IF \E j \in 1 .. n : ni[j] > Len(yv.data)
                 THEN [sys EXCEPT !.status = "IndexError"]
                 ELSE [sys EXCEPT
                         !.status = "solved",
                         !.pred = Rat(SumSeq([j \in 1 .. n |-> sol.wnum[j] * yv.data[ni[j]]]),
                                      sol.det),
                         !.err  = Rat(SumSeq([j \in 1 .. (n + 1) |-> sol.wnum[j] * b[j]]),
                                      sol.det)]

\* every way the iteration for pt can go, over the kd-tree's tie orders
PointOutcomes(data, yv, vg, useN, pt, kk, r) ==
    {LET nb == KdQuery(data, pt, kk, ord)
     IN  KrigePoint(data, yv, vg, useN, nb.nd, nb.ni, r) :
        ord \in SortedOrders(data, pt, kk)}

\* a loop that an empty neighborhood ends
Raised_OnEmpty(rec) == rec.status # "solved"

Raised(rec) == rec.status \notin {"empty", "solved"}

\* the loop stops at the first iteration that raises
Processed(tr) ==
    IF \E i \in 1 .. Len(tr) : Raised(tr[i])
    THEN SubSeq(tr, 1, CHOOSE i \in 1 .. Len(tr) :
                          Raised(tr[i]) /\ \A j \in 1 .. (i - 1) : ~Raised(tr[j]))
    ELSE tr

LoopOutcome(tr) ==
    IF \E i \in 1 .. Len(tr) : Raised(tr[i]) THEN tr[Len(Processed(tr))].status ELSE "ok"

(***************************************************************************)
(* Arguments the callers pass.                                             *)
(***************************************************************************)
\* training locations: 2-D arrays of shape (N, 1) and (<= 1, 2), and 1-D
\* vectors of N scalars
FitLocations ==
    {[ndim |-> 2, cols |-> 1, data |-> d] : d \in SeqsUpTo(Points1, MaxN)}
    \cup {[ndim |-> 2, cols |-> 2, data |-> d] : d \in SeqsUpTo(Points2, 1)}
    \cup {[ndim |-> 1, cols |-> 0, data |-> d] : d \in SeqsUpTo(Scalars, MaxN)}

FitValues == SeqsUpTo(Values, MaxN)

\* the optional arguments of update_fit; given = FALSE is None; y is an ndarray
\* or a python list
OptLocations ==
    {[given |-> FALSE, ndim |-> 2, cols |-> 0, data |-> <<>>]}
    \cup {[given |-> TRUE, ndim |-> l.ndim, cols |-> l.cols, data |-> l.data] :
              l \in FitLocations}

OptValues ==
    {[given |-> FALSE, array |-> FALSE, data |-> <<>>]}
    \cup {[given |-> TRUE, array |-> TRUE, data |-> v] : v \in FitValues}
    \cup {[given |-> TRUE, array |-> FALSE, data |-> v] : v \in SeqsUpTo(ListValues, MaxN)}

\* query arguments: 2-D batches with 0, 1 or 2 feature columns, and 1-D vectors
\* of 0, 1 or 3 scalars
Queries ==
    {[ndim |-> 2, cols |-> 1, data |-> d] : d \in SeqsUpTo(QueryPoints1, MaxM)}
    \cup {[ndim |-> 2, cols |-> 2, data |-> d] : d \in SeqsUpTo(QueryPoints2, 1)}
    \cup {[ndim |-> 2, cols |-> 0, data |-> d] : d \in SeqsUpTo({<<>>}, 1)}
    \cup {[ndim |-> 1, cols |-> 0, data |-> d] :
              d \in SeqsUpTo(QueryPoints1, 1) \cup {<< <<0>>, <<1>>, <<0>> >>}}

NoQuery == [ndim |-> 1, cols |-> 0, data |-> <<>>]

(***************************************************************************)
(* State after __init__ (lines 14-29) with the default arguments.          *)
(***************************************************************************)
NoCall ==
    /\ q' = NoQuery /\ k' = 0 /\ radius' = 0 /\ searched' = FALSE
    /\ trace' = <<>> /\ results' = <<>> /\ errors' = <<>>

\* the API is synchronous: a call is made only after the previous one returned
Idle == op \in {"init", "idle"}

\* the caller takes the result of the last call
Return ==
    /\ op \notin {"init", "idle"}
    /\ op' = "idle" /\ outcome' = "ok" /\ refit' = FALSE
    /\ NoCall
    /\ UNCHANGED <<X, y, n_features, variogram, good_lowbin_fit, useNugget, fitted, vm>>

NoEval == [name |-> "none", m |-> <<>>, d |-> 0, out |-> 0]

Init ==
    /\ X = [set |-> FALSE, cols |-> 0, data |-> <<>>]
    /\ y = [set |-> FALSE, array |-> FALSE, data |-> <<>>]
    /\ n_features = 0
    /\ variogram = NoVariogram
    /\ good_lowbin_fit = FALSE
    /\ useNugget = FALSE
    /\ fitted = FALSE
    /\ op = "init" /\ outcome = "ok" /\ refit = FALSE
    /\ q = NoQuery /\ k = 0 /\ radius = 0 /\ searched = FALSE
    /\ trace = <<>> /\ results = <<>> /\ errors = <<>>
    /\ vm = NoEval

(***************************************************************************)
(* Setters (lines 31-41, 66-76, 94-103).                                   *)
(***************************************************************************)
update_good_lowbin_fit(b) ==
    /\ good_lowbin_fit' = b
    /\ op' = "update_good_lowbin_fit" /\ outcome' = "ok" /\ refit' = FALSE
    /\ NoCall
    /\ UNCHANGED <<X, y, n_features, variogram, useNugget, fitted, vm>>

update_useNugget(b) ==
    /\ useNugget' = b
    /\ op' = "update_useNugget" /\ outcome' = "ok" /\ refit' = FALSE
    /\ NoCall
    /\ UNCHANGED <<X, y, n_features, variogram, good_lowbin_fit, fitted, vm>>

\* a caller-supplied binding, or None
SuppliedVariograms ==
    {NoVariogram} \cup {[set |-> TRUE, nugget |-> g, glf |-> FALSE] : g \in Nuggets}

update_variogram(v) ==
    /\ variogram' = v
    /\ op' = "update_variogram" /\ outcome' = "ok" /\ refit' = FALSE
    /\ NoCall
    /\ UNCHANGED <<X, y, n_features, good_lowbin_fit, useNugget, fitted, vm>>

(***************************************************************************)
(* fit (lines 132-184) and update_fit (lines 105-130).                     *)
(***************************************************************************)
\* lines 152-162: the binding the collaborator returns, built with the current
\* settings; its fitted parameters are the collaborator's choice
NewVariograms(glf) == {[set |-> TRUE, nugget |-> g, glf |-> glf] : g \in Nuggets}

\* lines 150-171: a binding is created and fitted only when there is none
FitVariograms(vg, glf) == IF vg.set THEN {vg} ELSE NewVariograms(glf)

\* line 147: the length check
SameLength(Xa, ya) == Len(Xa) = Len(ya)

\* lines 121, 175: cKDTree(X) raises ValueError unless X is 2-D
TreeBuilds(Xa) == Xa.ndim = 2

\* the body of fit(Xa, ya), entered with Xs, ys stored as self.X, self.y; the
\* statements run in the code's order, and an exception keeps what was
\* assigned before it
FitBody(Xs, ys, Xa, ya) ==
    IF ~SameLength(Xa.data, ya)
    THEN \* lines 147-149
         /\ outcome' = "ShapeMismatch"
         /\ X' = Xs /\ y' = ys
         /\ refit' = FALSE
         /\ UNCHANGED <<n_features, variogram, fitted>>
    ELSE \* lines 150-173: the binding, then self.y
         /\ variogram' \in FitVariograms(variogram, good_lowbin_fit)
         /\ refit' = ~variogram.set
         /\ y' = [set |-> TRUE, array |-> TRUE, data |-> ya]
         /\ IF ~TreeBuilds(Xa)
            THEN \* line 175 raises: self.X and n_features keep their values
                 /\ outcome' = "ValueError"
                 /\ X' = Xs
                 /\ UNCHANGED <<n_features, fitted>>
            ELSE \* lines 175-182
                 /\ outcome' = "ok"
                 /\ X' = [set |-> TRUE, cols |-> Xa.cols, data |-> Xa.data]
                 /\ n_features' = Xa.cols
                 /\ fitted' = TRUE

fit(Xa, ya) ==
    /\ op' = "fit"
    /\ FitBody(X, y, Xa, ya)
    /\ NoCall
    /\ UNCHANGED <<good_lowbin_fit, useNugget, vm>>

\* lines 119-125: the arguments given are stored before fit() is called
StoreX(Xs, Xo) == IF Xo.given THEN [set |-> TRUE, cols |-> Xo.cols, data |-> Xo.data] ELSE Xs

\* line 125 stores the argument as it is, a python list or an ndarray
StoreY(ys, yo) ==
    IF yo.given THEN [set |-> TRUE, array |-> yo.array, data |-> yo.data] ELSE ys

update_fit(Xo, yo) ==
    LET X1 == StoreX(X, Xo)
        y1 == StoreY(y, yo)
    IN  /\ op' = "update_fit"
        /\ IF Xo.given /\ ~TreeBuilds(Xo)
           THEN \* line 121 raises before anything is stored
                /\ outcome' = "ValueError"
                /\ refit' = FALSE
                /\ UNCHANGED <<X, y, n_features, variogram, fitted>>
           ELSE IF ~X1.set \/ ~y1.set
           THEN \* line 128: self.X or self.y does not exist yet
                /\ outcome' = "AttributeError"
                /\ X' = X1 /\ y' = y1
                /\ refit' = FALSE
                /\ UNCHANGED <<n_features, variogram, fitted>>
           ELSE FitBody(X1, y1, [ndim |-> 2, cols |-> X1.cols, data |-> X1.data], y1.data)
        /\ NoCall
        /\ UNCHANGED <<good_lowbin_fit, useNugget, vm>>

(***************************************************************************)
(* predict (lines 197-316).                                                *)
(***************************************************************************)
\* the last dimension of the array handed to cKDTree.query
QueryLastDim(x) == IF x.ndim = 1 THEN Len(x.data) ELSE x.cols

NoResult ==
    trace' = <<>> /\ results' = <<>> /\ errors' = <<>>

predict(x, kk, r) ==
    /\ op' = "predict" /\ q' = x /\ k' = kk /\ radius' = r /\ refit' = FALSE
    /\ UNCHANGED <<X, y, n_features, variogram, good_lowbin_fit, useNugget, fitted, vm>>
    /\ LET v  == Validate(n_features, x, kk, r)
           xx == Promote(n_features, x)
       IN  IF v # "ok"
           THEN outcome' = v /\ searched' = FALSE /\ NoResult
           ELSE /\ searched' = TRUE
                /\ IF ~X.set
                   THEN \* lines 247-249: self.X does not exist
                        outcome' = "AttributeError" /\ NoResult
                   ELSE IF QueryLastDim(xx) # X.cols
                   THEN \* cKDTree.query: ValueError, x must consist of vectors of length m
                        outcome' = "QueryError" /\ NoResult
                   ELSE \E tr \in SeqProduct([i \in 1 .. Len(xx.data) |->
                                PointOutcomes(X.data, y, variogram, useNugget,
                                              xx.data[i], kk, r)]) :
                            /\ trace' = Processed(tr)
                            /\ outcome' = LoopOutcome(tr)
                            /\ results' = IF LoopOutcome(tr) = "ok"
                                          THEN [i \in 1 .. Len(tr) |-> tr[i].pred]
                                          ELSE <<>>
                            /\ errors'  = IF LoopOutcome(tr) = "ok"
                                          THEN [i \in 1 .. Len(tr) |-> tr[i].err]
                                          ELSE <<>>

\* the calls a caller can make once the previous call has returned
DataCall ==
    \/ \E b \in BOOLEAN : update_useNugget(b)
    \/ \E v \in SuppliedVariograms : update_variogram(v)
    \/ \E Xa \in FitLocations, ya \in FitValues : fit(Xa, ya)
    \/ \E Xo \in OptLocations, yo \in OptValues : update_fit(Xo, yo)

\* fitting and predicting; good_lowbin_fit, which predict never reads, keeps
\* its constructor value
Next ==
    \/ Return
    \/ Idle /\ DataCall
    \/ Idle /\ \E x \in Queries, kk \in Ks, r \in Radii : predict(x, kk, r)

Spec == Init /\ [][Next]_vars

\* fitting under changing settings, without predictions
(***************************************************************************)
(* The variogram model family on its own: distributions[name](m, d).       *)
(***************************************************************************)
ModelValues == {1, 2}
ModelDistances == {0, 1, 2, 3}

ModelParams(name) ==
    IF name = "linear"
    THEN {<<Fixed(s), Fixed(n)>> : s \in ModelValues, n \in Nuggets}
    ELSE {<<Fixed(p[1]), Fixed(p[2]), Fixed(n)>> :
              p \in ModelValues \X ModelValues, n \in Nuggets}

Evaluate(name, m, d) ==
    /\ vm' = [name |-> name, m |-> m, d |-> d, out |-> distributions(name, m, d)]
    /\ UNCHANGED krigingVars

NextModels ==
    \E name \in ModelNames : \E m \in ModelParams(name), d \in ModelDistances :
        Evaluate(name, m, Fixed(d))

SpecModels == Init /\ [][NextModels]_vars

NextSettings ==
    \/ Return
    \/ Idle /\ DataCall
    \/ Idle /\ \E b \in BOOLEAN : update_good_lowbin_fit(b)

SpecSettings == Init /\ [][NextSettings]_vars

(***************************************************************************)
(* Properties.                                                             *)
(***************************************************************************)
\* the query points of the last predict call, as the loop sees them
Pts == Promote(n_features, q).data

\* the last call was a predict that passed validation
PassedValidation ==
    op = "predict" /\ outcome \notin {"DimensionMismatch", "InvalidNeighborCount", "InvalidRadius"}

\* the stored observations within the radius of point pt
WithinRadius(pt) ==
    {s \in 1 .. Len(X.data) : Dist(X.data[s], pt, distance_type) < radius}

\* C1: in every reachable state the stored locations and values have the same
\* length (a failing fit or update_fit leaves the store as it was).
C1_LengthInvariant ==
    (X.set /\ y.set) => Len(X.data) = Len(y.data)

\* C2: every predict call made before any successful fit fails with the error
\* of an unfitted predictor and returns no prediction.
C2_UnfittedPredictNotFitted ==
    (op = "predict" /\ ~fitted /\ k > 0 /\ radius > 0) =>
        (outcome = "AttributeError" /\ results = <<>> /\ errors = <<>>)

\* the query's feature count agrees with F features: a 2-D batch has F
\* columns; a 1-D vector is one point of F features or a batch of scalars (F = 1)
QueryFits(F, x) ==
    IF x.ndim = 2 THEN x.cols = F ELSE (Len(x.data) = F \/ F = 1)

\* C3: on a fitted predictor, a predict call with a wrong feature count, k <= 0
\* or radius <= 0 fails with DimensionMismatch, InvalidNeighborCount or
\* InvalidRadius (the first that applies, in this order) before the neighbor
\* search starts, and yields no prediction or error for any point.
C3_ValidationBeforeSearch ==
    (op = "predict" /\ fitted /\ (~QueryFits(n_features, q) \/ k <= 0 \/ radius <= 0)) =>
        /\ outcome = IF ~QueryFits(n_features, q) THEN "DimensionMismatch"
                     ELSE IF k <= 0 THEN "InvalidNeighborCount"
                     ELSE "InvalidRadius"
        /\ ~searched
        /\ trace = <<>> /\ results = <<>> /\ errors = <<>>

C3_Witness ==
    /\ op = "predict" /\ fitted
    /\ q.ndim = 2 /\ q.cols # n_features /\ Len(q.data) > 0
    /\ k > 0 /\ radius > 0
    /\ outcome = "DimensionMismatch"

\* C4: with the nugget effect disabled, a returned prediction for a query
\* point at distance 0 from an observation of its neighborhood is exactly that
\* observation's value.
C4_ExactAtObservation ==
    (op = "predict" /\ outcome = "ok" /\ ~useNugget) =>
        \A i \in 1 .. Len(trace) : \A j \in 1 .. Len(trace[i].ni) :
            trace[i].nd[j] = 0 => results[i] = Rat(y.data[trace[i].ni[j]], 1)

\* a system of the trace that scipy.linalg.solve solved
Solved(rec) == rec.a # <<>> /\ rec.det # 0

\* C5: for every solved system, under both nugget policies, the border row is
\* a[n, 0:n] = 1, a[n, n] = 0, b[n] = 1 and the first n weights sum to 1.
C5_WeightsSumToOne ==
    op = "predict" =>
        \A i \in 1 .. Len(trace) :
            Solved(trace[i]) =>
                LET n == Len(trace[i].ni)
                IN  /\ \A j \in 1 .. n : trace[i].a[n + 1][j] = 1
                    /\ trace[i].a[n + 1][n + 1] = 0
                    /\ trace[i].b[n + 1] = 1
                    /\ SumSeq(SubSeq(trace[i].wnum, 1, n)) = trace[i].det

C5_Witness ==
    /\ op = "predict" /\ ~useNugget /\ variogram.nugget # 0
    /\ \E i \in 1 .. Len(trace) :
          /\ Solved(trace[i])
          /\ Len(trace[i].ni) = 2
          /\ trace[i].nd[1] = 0
          /\ trace[i].b[1] = 0 /\ trace[i].b[3] = 1

\* C6: every neighbor that enters a kriging system is an index of the stored
\* observations whose distance to the query point is below the radius, and a
\* neighborhood has between 0 and k members, also when the search fills
\* slots with its sentinel.
C6_NeighborsRealAndInRadius ==
    op = "predict" =>
        \A i \in 1 .. Len(trace) :
            /\ Len(trace[i].ni) <= k
            /\ Len(trace[i].nd) = Len(trace[i].ni)
            /\ \A j \in 1 .. Len(trace[i].ni) :
                  /\ trace[i].ni[j] \in 1 .. Len(X.data)
                  /\ trace[i].nd[j] < radius
                  /\ trace[i].nd[j] = Dist(X.data[trace[i].ni[j]], Pts[i], distance_type)

C6_Witness ==
    /\ op = "predict" /\ k > Len(X.data) /\ radius = Inf
    /\ \E i \in 1 .. Len(trace) :
          /\ Len(trace[i].ni) = Len(X.data)
          /\ Len(trace[i].ni) > 0
          /\ Solved(trace[i])

\* the neighbor search of the last predict call raised: the store has no
\* tree, or the query's last dimension is not the tree's
SearchRaised ==
    \/ ~X.set /\ outcome = "AttributeError"
    \/ X.set /\ QueryLastDim(Promote(n_features, q)) # X.cols /\ outcome = "QueryError"

C8_SingularSurfaces ==
    op = "predict" =>
        \A i \in 1 .. Len(trace) :
            (trace[i].a # <<>> /\ Det(trace[i].a) = 0) =>
                /\ outcome = "SingularSystem"
                /\ i = Len(trace)
                /\ results = <<>> /\ errors = <<>>

C8_Witness ==
    /\ op = "predict" /\ outcome = "SingularSystem" /\ ~useNugget
    /\ LET rec == trace[Len(trace)]
       IN  /\ Len(rec.ni) = 2
           /\ X.data[rec.ni[1]] = X.data[rec.ni[2]]

\* C10: every successful update_fit re-fits the variogram, so that the binding
\* is one fitted under the current settings.
C10_UpdateFitRefits ==
    (op = "update_fit" /\ outcome = "ok") =>
        (refit /\ variogram.glf = good_lowbin_fit)

\* C9: every model of the family, at every parameter vector with positive
\* range or exponent, returns the nugget parameter at distance 0.
C9_ModelAtZeroIsNugget ==
    (vm.name \in ModelNames /\ vm.d = 0) => vm.out = NuggetOf(vm.name, vm.m)

====
